---- MODULE Spec2Model ----
(***************************************************************************)
(* cargo-binutils: one invocation of `cargo <tool>` (src/lib.rs `run`,     *)
(* `cargo_build`, `cargo_build_args`, `format_targets`, `BuildType`;       *)
(* src/tool.rs `Tool`; src/llvm.rs `arch_name`).                           *)
(*                                                                         *)
(* Option<T> is a sequence of length at most one: None is <<>>, Some(x) is *)
(* <<x>>.  A path is the sequence of its components.  A string that the    *)
(* program formats is the sequence of its tokens.                          *)
(***************************************************************************)
EXTENDS Integers, Sequences, FiniteSets

\* ------------------------------------------------------------------ bounds
\* Longest build message stream that is explored.
MaxStream == 2
\* How many messages the child's stdout pipe holds before a write blocks.
PipeCapacity == 1

\* ------------------------------------------------------------- Option<T>
None == <<>>
Some(x) == <<x>>
IsSome(o) == Len(o) = 1
Unwrap(o) == o[1]

\* --------------------------------------------------------------- tool.rs
Tool == {"Ar", "Lld", "Nm", "Objcopy", "Objdump", "Profdata", "Readobj", "Size", "Strip"}

name(tool) ==
    CASE tool = "Ar" -> "ar"
      [] tool = "Lld" -> "lld"
      [] tool = "Nm" -> "nm"
      [] tool = "Objcopy" -> "objcopy"
      [] tool = "Objdump" -> "objdump"
      [] tool = "Profdata" -> "profdata"
      [] tool = "Readobj" -> "readobj"
      [] tool = "Size" -> "size"
      [] tool = "Strip" -> "strip"

\* Mutant of needs_build: strip is run without a build.
needs_build_not_for_strip(tool) ==
    CASE tool \in {"Ar", "Lld", "Profdata", "Strip"} -> FALSE
      [] tool \in {"Nm", "Objcopy", "Objdump", "Readobj", "Size"} -> TRUE

\* Tool::needs_build
needs_build(tool) ==
    CASE tool \in {"Ar", "Lld", "Profdata"} -> FALSE
      [] tool \in {"Nm", "Objcopy", "Objdump", "Readobj", "Size", "Strip"} -> TRUE

\* ------------------------------------------------------------- BuildType
\* enum BuildType: the variants without a name carry the empty name.
BuildType(tag, target_name) == [tag |-> tag, name |-> target_name]
Any == BuildType("Any", "")
Lib == BuildType("Lib", "")
CustomBuild == BuildType("CustomBuild", "")
Bin(n) == BuildType("Bin", n)
Example(n) == BuildType("Example", n)
Test(n) == BuildType("Test", n)
Bench(n) == BuildType("Bench", n)

\* The kind strings that BuildType::Lib excludes.
NotLibKinds == {"bin", "example", "test", "custom-build", "bench"}

\* BuildType::matches with one of three slips: "any" narrows Any to binaries and
\* examples, "name" leaves the name out of the Example comparison, "bench" leaves
\* bench out of the kinds Lib excludes.
matches_with_slip(self, artifact, slip) ==
    LET kind == artifact.target.kind
        nm == artifact.target.name
    IN CASE self.tag = "Any" -> slip = "any" => kind[1] \in {"bin", "example"}
         [] self.tag = "Bin" -> kind[1] = "bin" /\ nm = self.name
         [] self.tag = "Example" -> kind[1] = "example" /\ (slip = "name" \/ nm = self.name)
         [] self.tag = "Test" -> kind[1] = "test" /\ nm = self.name
         [] self.tag = "Bench" -> kind[1] = "bench" /\ nm = self.name
         [] self.tag = "CustomBuild" -> kind[1] = "custom-build"
         [] self.tag = "Lib" ->
                \E i \in 1..Len(kind) :
                    kind[i] \notin (IF slip = "bench" THEN NotLibKinds \ {"bench"}
                                    ELSE NotLibKinds)

\* Mutants of BuildType_matches.
BuildType_matches_any_narrowed(self, artifact) == matches_with_slip(self, artifact, "any")
BuildType_matches_name_ignored(self, artifact) == matches_with_slip(self, artifact, "name")
BuildType_matches_bench_is_lib(self, artifact) == matches_with_slip(self, artifact, "bench")

\* BuildType::matches(&self, artifact)
BuildType_matches(self, artifact) ==
    LET kind == artifact.target.kind
        nm == artifact.target.name
    IN CASE self.tag = "Any" -> TRUE
         [] self.tag = "Bin" -> kind[1] = "bin" /\ nm = self.name
         [] self.tag = "Example" -> kind[1] = "example" /\ nm = self.name
         [] self.tag = "Test" -> kind[1] = "test" /\ nm = self.name
         [] self.tag = "Bench" -> kind[1] = "bench" /\ nm = self.name
         [] self.tag = "CustomBuild" -> kind[1] = "custom-build"
         [] self.tag = "Lib" -> \E i \in 1..Len(kind) : kind[i] \notin NotLibKinds

\* BuildType::from_artifact(artifact)
from_artifact(artifact) ==
    LET k == artifact.target.kind[1]
        nm == artifact.target.name
    IN CASE k = "bin" -> Bin(nm)
         [] k = "example" -> Example(nm)
         [] k = "test" -> Test(nm)
         [] k = "bench" -> Bench(nm)
         [] k = "custom-build" -> CustomBuild
         [] OTHER -> IF BuildType_matches(Lib, artifact) THEN Lib ELSE Any

\* BuildType::generate_command(tool, artifact): the line, as its tokens.
generate_command(tool, artifact) ==
    LET bt == from_artifact(artifact)
        nm == artifact.target.name
    IN CASE bt.tag = "Any" -> <<"Unknown target:", nm, artifact.target.kind>>
         [] bt.tag = "CustomBuild" ->
                <<"Unable to create command for custom-build target:", nm>>
         [] bt.tag = "Bin" -> <<"cargo", name(tool), "--bin", bt.name>>
         [] bt.tag = "Example" -> <<"cargo", name(tool), "--example", bt.name>>
         [] bt.tag = "Test" -> <<"cargo", name(tool), "--test", bt.name>>
         [] bt.tag = "Bench" -> <<"cargo", name(tool), "--bench", bt.name>>
         [] bt.tag = "Lib" -> <<"cargo", name(tool), "--lib", nm>>

\* BuildType::generate_command_with_package(tool, artifact)
generate_command_with_package(tool, artifact) ==
    LET bt == from_artifact(artifact)
        nm == artifact.target.name
        pk == artifact.package_id
    IN CASE bt.tag = "Any" -> <<"Unknown target:", pk, nm, artifact.target.kind>>
         [] bt.tag = "CustomBuild" ->
                <<"Unable to create command for custom-build target:", pk, nm>>
         [] bt.tag = "Bin" -> <<"cargo", name(tool), "--package", pk, "--bin", bt.name>>
         [] bt.tag = "Example" ->
                <<"cargo", name(tool), "--package", pk, "--example", bt.name>>
         [] bt.tag = "Test" -> <<"cargo", name(tool), "--package", pk, "--test", bt.name>>
         [] bt.tag = "Bench" -> <<"cargo", name(tool), "--package", pk, "--bench", bt.name>>
         [] bt.tag = "Lib" -> <<"cargo", name(tool), "--package", pk, "--lib", nm>>

\* ---------------------------------------------------------- format_targets
RECURSIVE Concat(_)
Concat(ss) == IF ss = <<>> THEN <<>> ELSE Head(ss) \o Concat(Tail(ss))

\* All iteration orders of a HashMap whose key set is S.
IterationOrders(S) ==
    {o \in [1..Cardinality(S) -> S] : \A i, j \in 1..Cardinality(S) : o[i] = o[j] => i = j}

\* The lines of one `Package:` group: the heading, then one command per artifact
\* of the package, in the order they were pushed.
PackageGroup(tool, k, artifacts) ==
    LET v == SelectSeq(artifacts, LAMBDA a : a.package_id = k)
    IN <<(<<"Package:", k>>)>> \o [i \in 1..Len(v) |-> generate_command_with_package(tool, v[i])]

\* format_targets(tool, artifacts): the set of texts (sequences of lines) it can
\* return; `map.iter()` walks a HashMap, whose order is not fixed.
format_targets(tool, artifacts) ==
    LET keys == {artifacts[i].package_id : i \in 1..Len(artifacts)}
    IN IF Cardinality(keys) = 1
       THEN {[i \in 1..Len(artifacts) |-> generate_command(tool, artifacts[i])]}
       ELSE {Concat([i \in 1..Cardinality(keys) |-> PackageGroup(tool, o[i], artifacts)]) :
                o \in IterationOrders(keys)}

\* ---------------------------------------------------------------- llvm.rs
\* rustc_cfg::Cfg, the two fields arch_name reads.
Cfg(arch, endian) == [target_arch |-> arch, target_endian |-> endian]

starts_with_thumb(target) ==
    target \in {"thumbv7m-none-eabi", "thumbv7em-none-eabihf", "thumbebv8-custom-eabi"}

\* The arches the comments of llvm.rs list: those Rust knows and those LLVM knows.
RustArches ==
    {"aarch64", "arm", "asmjs", "hexagon", "mips", "mips64", "msp430", "nvptx", "nvptx64",
     "powerpc", "riscv32", "riscv64", "s390x", "sparc", "sparc64", "wasm32", "x86", "x86_64"}
LlvmArches ==
    {"aarch64", "aarch64_be", "arm", "arm64", "armeb", "hexagon", "mips", "mips64",
     "mips64el", "mipsel", "msp430", "nvptx", "nvptx64", "ppc32", "ppc64", "ppc64le",
     "riscv32", "riscv64", "sparc", "sparcel", "sparcv9", "systemz", "thumb", "thumbeb",
     "wasm32", "wasm64", "x86", "x86-64"}

\* The arches the table of arch_name has an entry for.
MappedArches ==
    {"aarch64", "arm", "mips", "mips64", "powerpc", "powerpc64", "sparc", "sparc64",
     "s390x", "x86_64"}

\* Mutant of arch_name: the table has no entry for sparc64.
arch_name_without_sparc64(cfg, target) ==
    LET endian == cfg.target_endian
        arch == cfg.target_arch
    IN IF starts_with_thumb(target)
       THEN IF endian = "big" THEN "thumbeb" ELSE "thumb"
       ELSE CASE arch = "aarch64" /\ endian = "big" -> "aarch64_be"
              [] arch = "arm" /\ endian = "big" -> "armeb"
              [] arch = "mips" /\ endian = "little" -> "mipsel"
              [] arch = "mips64" /\ endian = "little" -> "mips64el"
              [] arch = "powerpc64" /\ endian = "little" -> "ppc64le"
              [] arch = "sparc" /\ endian = "little" -> "sparcel"
              [] arch = "powerpc" -> "ppc32"
              [] arch = "powerpc64" /\ endian = "big" -> "ppc64"
              [] arch = "s390x" -> "systemz"
              [] arch = "x86_64" -> "x86-64"
              [] OTHER -> arch

\* Mutant of arch_name: powerpc64 is mapped to ppc64 first and ppc64 to ppc64le on
\* a second application.
arch_name_in_two_steps(cfg, target) ==
    LET endian == cfg.target_endian
        arch == cfg.target_arch
    IN IF starts_with_thumb(target)
       THEN IF endian = "big" THEN "thumbeb" ELSE "thumb"
       ELSE CASE arch = "aarch64" /\ endian = "big" -> "aarch64_be"
              [] arch = "arm" /\ endian = "big" -> "armeb"
              [] arch = "mips" /\ endian = "little" -> "mipsel"
              [] arch = "mips64" /\ endian = "little" -> "mips64el"
              [] arch = "ppc64" /\ endian = "little" -> "ppc64le"
              [] arch = "sparc" /\ endian = "little" -> "sparcel"
              [] arch = "powerpc" -> "ppc32"
              [] arch = "powerpc64" -> "ppc64"
              [] arch = "sparc64" -> "sparcv9"
              [] arch = "s390x" -> "systemz"
              [] arch = "x86_64" -> "x86-64"
              [] OTHER -> arch

\* llvm::arch_name(cfg, target)
arch_name(cfg, target) ==
    LET endian == cfg.target_endian
        arch == cfg.target_arch
    IN IF starts_with_thumb(target)
       THEN IF endian = "big" THEN "thumbeb" ELSE "thumb"
       ELSE CASE arch = "aarch64" /\ endian = "big" -> "aarch64_be"
              [] arch = "arm" /\ endian = "big" -> "armeb"
              [] arch = "mips" /\ endian = "little" -> "mipsel"
              [] arch = "mips64" /\ endian = "little" -> "mips64el"
              [] arch = "powerpc64" /\ endian = "little" -> "ppc64le"
              [] arch = "sparc" /\ endian = "little" -> "sparcel"
              [] arch = "powerpc" -> "ppc32"
              [] arch = "powerpc64" /\ endian = "big" -> "ppc64"
              [] arch = "sparc64" -> "sparcv9"
              [] arch = "s390x" -> "systemz"
              [] arch = "x86_64" -> "x86-64"
              [] OTHER -> arch

\* ------------------------------------------------- what the build can emit
\* Package ids: A and B are the workspace's members, D is a dependency.
PackageIds == {"A", "B", "D"}
Members == {"A", "B"}
Names == {"app", "aux"}

\* The `kind` lists cargo reports for a target (cargo's manifest.rs TargetKind,
\* the link at lib.rs:35-36): one of the five fixed kinds, or the crate types of
\* a library target (here a library built as `lib` and as `cdylib`).
FixedKinds == {<<"bin">>, <<"example">>, <<"test">>, <<"bench">>}
LibKindLists == {<<"lib", "cdylib">>}
Targets ==
    {[name |-> n, kind |-> k] : n \in Names, k \in FixedKinds \cup LibKindLists}
        \cup {[name |-> "build-script-build", kind |-> <<"custom-build">>]}

\* Where cargo puts its output below the target directory: the profile directory,
\* below the target triple when one was configured.
OutDirs ==
    {<<"debug">>, <<"release">>, <<"thumbv7em-none-eabihf", "release">>,
     <<"powerpc64le-unknown-linux-gnu", "debug">>, <<"thumbebv8-custom-eabi", "release">>,
     <<"dist">>}
TargetDirectory == <<"ws", "target">>

LibFile(n) == CASE n = "app" -> "libapp.rlib" [] n = "aux" -> "libaux.rlib"
MetaFile(n) == CASE n = "app" -> "libapp.rmeta" [] n = "aux" -> "libaux.rmeta"

\* The cargo_metadata::Artifact cargo reports for target t of package p; bins,
\* examples, tests and benches have an executable, libraries an rlib and an rmeta.
Artifact(p, t, out) ==
    LET k == t.kind[1]
        dir == TargetDirectory \o out
        file == CASE k = "bin" -> dir \o <<t.name>>
                  [] k = "example" -> dir \o <<"examples", t.name>>
                  [] k \in {"test", "bench"} -> dir \o <<"deps", t.name>>
                  [] k = "custom-build" -> dir \o <<"build", p, t.name>>
                  [] OTHER -> dir \o <<LibFile(t.name)>>
    IN [package_id |-> p,
        target |-> t,
        executable |-> IF k \in {"bin", "example", "test", "bench"} THEN Some(file) ELSE None,
        filenames |-> IF <<k>> \in FixedKinds \/ k = "custom-build"
                      THEN <<file>>
                      ELSE <<file, dir \o <<"deps", MetaFile(t.name)>> >>]

Rendered == {"warning: unused", "error: mismatched"}

\* cargo_metadata::Message, as far as cargo_build's match tells the variants apart.
Messages(out) ==
    {[type |-> "CompilerArtifact", artifact |-> Artifact(p, t, out)] :
        p \in PackageIds, t \in Targets}
    \cup {[type |-> "CompilerMessage", rendered |-> r] : r \in {None} \cup {Some(x) : x \in Rendered}}
    \cup {[type |-> "Other"]}

\* What `cargo build --message-format=json` can write, by project.
\* "workspace": members A and B each have the targets `app` and `aux` of every
\* fixed kind, a library `app` and a build script; the dependency D has the targets
\* named `app` and a build script.  "pair": A has a binary and a library `app`, B a
\* binary `app`.  "scripted": A has the binaries `app` and `aux`, B the binary
\* `app`, and both have a build script.
ProjectMessages(p, out) ==
    CASE p = "workspace" ->
            {m \in Messages(out) :
                (m.type = "CompilerArtifact" /\ m.artifact.target.name = "aux") =>
                    /\ m.artifact.package_id \in Members
                    /\ m.artifact.target.kind \in FixedKinds}
      [] p = "pair" ->
            {[type |-> "CompilerArtifact", artifact |-> Artifact(pt[1], pt[2], out)] :
                pt \in {<<"A", [name |-> "app", kind |-> <<"bin">>]>>,
                        <<"B", [name |-> "app", kind |-> <<"bin">>]>>,
                        <<"A", [name |-> "app", kind |-> <<"lib", "cdylib">>]>>}}
                \cup {[type |-> "Other"]}
      [] p = "scripted" ->
            {[type |-> "CompilerArtifact", artifact |-> Artifact(pt[1], pt[2], out)] :
                pt \in {<<"A", [name |-> "app", kind |-> <<"bin">>]>>,
                        <<"A", [name |-> "aux", kind |-> <<"bin">>]>>,
                        <<"B", [name |-> "app", kind |-> <<"bin">>]>>,
                        <<"A", [name |-> "build-script-build", kind |-> <<"custom-build">>]>>,
                        <<"B", [name |-> "build-script-build", kind |-> <<"custom-build">>]>>}}

\* std::process::ExitStatus::code() of a child: Some(code), or None after a signal.
ExitStatuses == {Some(0), Some(2), None}

\* Mutant of success: every status that carries an exit code counts as success.
success_of_any_code(status) == IsSome(status)

\* ExitStatus::success()
success(status) == status = Some(0)

\* ------------------------------------------------------- cargo_build_args
\* format!("-{}", "v".repeat(n))
VFlag(n) == CASE n = 1 -> "-v" [] n = 2 -> "-vv" [] OTHER -> "-vvv"

\* cargo_build_args(matches, cargo): the build type it returns and the arguments
\* it adds to `cargo build`, for the flags of the model's ArgMatches.
cargo_build_args(m) ==
    LET q == IF m.quiet THEN <<"--quiet">> ELSE <<>>
        sel == IF m.lib THEN [bt |-> Lib, args |-> <<"--lib">>]
               ELSE IF IsSome(m.bin)
                    THEN [bt |-> Bin(Unwrap(m.bin)), args |-> <<"--bin", Unwrap(m.bin)>>]
               ELSE IF IsSome(m.example)
                    THEN [bt |-> Example(Unwrap(m.example)),
                          args |-> <<"--example", Unwrap(m.example)>>]
               ELSE IF IsSome(m.test)
                    THEN [bt |-> Test(Unwrap(m.test)), args |-> <<"--test", Unwrap(m.test)>>]
               ELSE IF IsSome(m.bench)
                    THEN [bt |-> Bench(Unwrap(m.bench)), args |-> <<"--bench", Unwrap(m.bench)>>]
               ELSE [bt |-> Any, args |-> <<>>]
        v == IF m.verbose > 1 THEN <<VFlag(m.verbose - 1)>> ELSE <<>>
    IN [build_type |-> sel.bt, args |-> q \o sel.args \o v]

\* --------------------------------------------------------- the environment
\* What `rustc -vV` reports as the host, and what `rustc --print cfg` reports for
\* the targets of the model.
Host == "x86_64-unknown-linux-gnu"
CfgOf(target) ==
    CASE target = "x86_64-unknown-linux-gnu" -> Cfg("x86_64", "little")
      [] target = "thumbv7em-none-eabihf" -> Cfg("arm", "little")
      [] target = "powerpc64le-unknown-linux-gnu" -> Cfg("powerpc64", "little")
      [] target = "thumbebv8-custom-eabi" -> Cfg("arm", "big")
KnownTargets ==
    {"x86_64-unknown-linux-gnu", "thumbv7em-none-eabihf", "powerpc64le-unknown-linux-gnu",
     "thumbebv8-custom-eabi"}

\* Path::strip_prefix(base): Some(rest), or None where it returns Err.
strip_prefix(path, base) ==
    IF Len(base) <= Len(path) /\ SubSeq(path, 1, Len(base)) = base
    THEN Some(SubSeq(path, Len(base) + 1, Len(path)))
    ELSE None

\* Path::parent and Path::file_name of a path with at least one component.
parent(path) == SubSeq(path, 1, Len(path) - 1)
file_name(path) == path[Len(path)]

\* Result<T>: Ok(v) and Err(e), and anyhow's bail!(..) with the message's parts.
Ok(v) == [ok |-> TRUE, value |-> v]
Err(e) == [ok |-> FALSE, error |-> e]

\* --------------------------------------------------------------- the state
VARIABLES
    tool,       \* the Tool of this binary
    matches,    \* clap's ArgMatches: verbose (occurrences), quiet, lib, bin, example,
                \* test, bench, args
    out_dir,    \* where cargo puts this project's output below the target directory
    project,    \* which project is built: the name of one of ProjectMessages
    budget,     \* how many messages the cargo child may still write
    pipe,       \* the child's stdout pipe: messages written and not yet read
    pc,         \* "run", "spawn", "drain", "wait", "select", "flags", "invoke", "exited"
    metadata,   \* Option: cargo metadata's workspace_members and target_directory
    cargo,      \* the arguments of the `cargo` Command
    child,      \* the cargo child: "none", "running", "reaped"
    stream,     \* the messages read from the child's stdout so far
    artifacts,  \* Vec<Artifact> of cargo_build
    status,     \* Option: the ExitStatus child.wait() returned
    stdout,     \* what this process printed on its stdout, in order
    stderr,     \* what this process printed on its stderr, in order
    artifact,   \* Option: `artifact` of cargo_build, lib.rs:432
    lltool,     \* the `rust-<tool>` Command: args, current_dir, spawned and, once it
                \* has run, the ExitStatus of its Output
    result,     \* Option: what `run` returned
    exit_code,  \* Option: the code the process exited with
    call        \* Option: an application of llvm::arch_name, its arguments and results

\* What a run is given and never changes.
inputs == <<tool, matches, out_dir, project, call>>

vars ==
    <<inputs, budget, pipe, pc, metadata, cargo, child, stream, artifacts, status,
      stdout, stderr, artifact, lltool, result, exit_code>>

\* cargo_build's `build_type`, for the flags given.
build_type == cargo_build_args(matches).build_type

\* ArgMatches of the model: at most one of --lib, --bin, --example, --test, --bench
\* (clap rejects the others: conflicts_with_all, lib.rs:192-219).
ArgMatches(verbose, quiet, sel, args) ==
    [verbose |-> verbose,
     quiet |-> quiet,
     lib |-> sel.tag = "Lib",
     bin |-> IF sel.tag = "Bin" THEN Some(sel.name) ELSE None,
     example |-> IF sel.tag = "Example" THEN Some(sel.name) ELSE None,
     test |-> IF sel.tag = "Test" THEN Some(sel.name) ELSE None,
     bench |-> IF sel.tag = "Bench" THEN Some(sel.name) ELSE None,
     args |-> args]

Selectors == {Any, Lib, Bin("app"), Example("app"), Test("app"), Bench("app")}

\* The state as `run` is entered, for inputs drawn from the given sets, in one of
\* the given projects, whose build writes at most n messages.
InitFor(tools, verbosities, quiets, selectors, argss, outs, projects, n) ==
    /\ tool \in tools
    /\ matches \in
         {ArgMatches(v, q, IF needs_build(tool) THEN sel ELSE Any, a) :
            v \in verbosities, q \in IF needs_build(tool) THEN quiets ELSE {FALSE},
            sel \in selectors, a \in argss}
    /\ out_dir \in outs
    /\ project \in projects
    /\ budget = n
    /\ pipe = <<>>
    /\ call = None
    /\ pc = "run"
    /\ metadata = None
    /\ cargo = <<>>
    /\ child = "none"
    /\ stream = <<>>
    /\ artifacts = <<>>
    /\ status = None
    /\ stdout = <<>>
    /\ stderr = <<>>
    /\ artifact = None
    /\ lltool = [args |-> <<>>, current_dir |-> None, spawned |-> FALSE, status |-> None]
    /\ result = None
    /\ exit_code = None

\* The same, for the project of every package and target, and MaxStream messages.
InitWith(tools, verbosities, quiets, selectors, argss, outs) ==
    InitFor(tools, verbosities, quiets, selectors, argss, outs, {"workspace"}, MaxStream)

Init == InitWith({"Nm", "Ar"}, {0}, {FALSE}, Selectors, {<<>>}, {<<"debug">>})

\* `run` returns r (a `return`, a `?` or a bail!), and Tool::cargo_exec,
\* tool.rs:95-105, ends the process on it: with the code of Ok(code), with 101 and
\* the error on stderr otherwise.
Return(r, err) ==
    /\ result' = Some(r)
    /\ exit_code' = Some(IF r.ok THEN r.value ELSE 101)
    /\ stderr' = IF r.ok THEN err ELSE Append(err, <<"error:", r.error.msg>>)
    /\ pc' = "exited"

\* The run goes on at `next`, having printed `err` on stderr so far.
Continue(next, err) ==
    /\ pc' = next
    /\ stderr' = err
    /\ UNCHANGED <<result, exit_code>>

\* An argument of a Command is an OsString: a path is its components, a plain
\* string the one-component path of that name.
OsStr(str) == <<str>>

\* ------------------------------------------------------------- the actions
\* run, lib.rs:273-278, for a tool that needs no build.
NoBuild ==
    /\ pc = "run"
    /\ ~needs_build(tool)
    /\ Continue("invoke", stderr)
    /\ UNCHANGED <<inputs, budget, pipe, metadata, cargo, child, stream, artifacts,
                   status, stdout, artifact, lltool>>

\* cargo_build, lib.rs:311-326: `cargo metadata`.
MetadataExec ==
    /\ pc = "run"
    /\ needs_build(tool)
    /\ \E md \in {None} \cup {Some([workspace_members |-> ws,
                                   target_directory |-> TargetDirectory]) : ws \in {{}, Members}} :
         /\ metadata' = md
         /\ IF md = None
            THEN Return(Err([msg |-> "cargo metadata failed"]), stderr)
            ELSE IF Unwrap(md).workspace_members = {}
            THEN Return(Err([msg |-> "Unable to find workspace members"]), stderr)
            ELSE Continue("spawn", stderr)
    /\ UNCHANGED <<inputs, budget, pipe, cargo, child, stream, artifacts, status,
                   stdout, artifact, lltool>>

\* cargo_build, lib.rs:328-342: build the `cargo build` command and spawn it.
SpawnCargo ==
    /\ pc = "spawn"
    /\ cargo' = <<"build">> \o cargo_build_args(matches).args \o <<"--message-format=json">>
    /\ LET err == IF matches.verbose > 0 THEN Append(stderr, <<"cargo", cargo'>>) ELSE stderr
       IN \E spawned \in BOOLEAN :
            IF spawned
            THEN child' = "running" /\ Continue("drain", err)
            ELSE child' = "none" /\ Return(Err([msg |-> "cargo failed to spawn"]), err)
    /\ UNCHANGED <<inputs, budget, pipe, metadata, stream, artifacts, status, stdout,
                   artifact, lltool>>

\* Mutant of HandleMessage: the rendered text is put in front of what was printed.
HandleMessage_prints_in_front(message) ==
    /\ stream' = Append(stream, message)
    /\ artifacts' =
         IF /\ message.type = "CompilerArtifact"
            /\ message.artifact.package_id \in Unwrap(metadata).workspace_members
            /\ BuildType_matches(build_type, message.artifact)
         THEN Append(artifacts, message.artifact)
         ELSE artifacts
    /\ stdout' =
         IF message.type = "CompilerMessage" /\ IsSome(message.rendered)
         THEN <<Unwrap(message.rendered)>> \o stdout
         ELSE stdout

\* One turn of the loop at lib.rs:347-365 on the message read.
HandleMessage(message) ==
    /\ stream' = Append(stream, message)
    /\ artifacts' =
         IF /\ message.type = "CompilerArtifact"
            /\ message.artifact.package_id \in Unwrap(metadata).workspace_members
            /\ BuildType_matches(build_type, message.artifact)
         THEN Append(artifacts, message.artifact)
         ELSE artifacts
    /\ stdout' =
         IF message.type = "CompilerMessage" /\ IsSome(message.rendered)
         THEN Append(stdout, Unwrap(message.rendered))
         ELSE stdout

\* The cargo child, spawned at lib.rs:337-342 with a piped stdout, writes one more
\* message; the write blocks while the pipe is full, and fails once this process
\* has gone and the read end is closed.
ChildWrite ==
    /\ child = "running"
    /\ pc = "drain"
    /\ budget > 0
    /\ Len(pipe) < PipeCapacity
    /\ \E message \in ProjectMessages(project, out_dir) : pipe' = Append(pipe, message)
    /\ budget' = budget - 1
    /\ UNCHANGED <<inputs, pc, metadata, cargo, child, stream, artifacts, status, stdout,
                   stderr, artifact, lltool, result, exit_code>>

\* lib.rs:347, the iterator of Message::parse_stream yields the next message of
\* the pipe.
ReadMessage ==
    /\ pc = "drain"
    /\ pipe # <<>>
    /\ HandleMessage(Head(pipe))
    /\ pipe' = Tail(pipe)
    /\ UNCHANGED <<inputs, budget, pc, metadata, cargo, child, status, stderr,
                   artifact, lltool, result, exit_code>>

\* lib.rs:348, `message?` on a message that failed to read: cargo_build returns here.
ReadError ==
    /\ pc = "drain"
    /\ Return(Err([msg |-> "failed to read the message stream"]), stderr)
    /\ UNCHANGED <<inputs, budget, pipe, metadata, cargo, child, stream, artifacts,
                   status, stdout, artifact, lltool>>

\* Mutant of EndOfStream: the loop is left while the pipe still holds messages.
EndOfStream_before_drained ==
    /\ pc = "drain"
    /\ Continue("wait", stderr)
    /\ UNCHANGED <<inputs, budget, pipe, metadata, cargo, child, stream, artifacts,
                   status, stdout, artifact, lltool>>

\* The child closes its stdout and the iterator, with nothing left to read in the
\* pipe, ends: the loop is left and child.wait() (lib.rs:367) is entered.
EndOfStream ==
    /\ pc = "drain"
    /\ pipe = <<>>
    /\ Continue("wait", stderr)
    /\ UNCHANGED <<inputs, budget, pipe, metadata, cargo, child, stream, artifacts,
                   status, stdout, artifact, lltool>>

\* Mutant of Wait: the exit status is looked at only when no artifact was
\* collected.
Wait_status_only_when_empty ==
    /\ pc = "wait"
    /\ \E st \in ExitStatuses :
         /\ status' = Some(st)
         /\ child' = "reaped"
         /\ IF ~success(st) /\ artifacts = <<>>
            THEN Return(Err([msg |-> "Failed to run", tool |-> name(tool)]), stderr)
            ELSE Continue("select", stderr)
    /\ UNCHANGED <<inputs, budget, pipe, metadata, cargo, stream, artifacts, stdout,
                   artifact, lltool>>

\* cargo_build, lib.rs:367-385: wait for the child and look at its exit status.
Wait ==
    /\ pc = "wait"
    /\ \E st \in ExitStatuses :
         /\ status' = Some(st)
         /\ child' = "reaped"
         /\ IF ~success(st)
            THEN IF matches.verbose > 0
                 THEN Return(Err([msg |-> "Failed to run", cargo |-> cargo, status |-> st]),
                             stderr)
                 ELSE IF IsSome(st)
                 THEN Return(Err([msg |-> "Failed to run", code |-> Unwrap(st),
                                  tool |-> name(tool)]), stderr)
                 ELSE Return(Err([msg |-> "Failed to run", signal |-> TRUE,
                                  tool |-> name(tool)]), stderr)
            ELSE Continue("select", stderr)
    /\ UNCHANGED <<inputs, budget, pipe, metadata, cargo, stream, artifacts, stdout,
                   artifact, lltool>>

\* Mutant of filtered_artifacts: the build scripts are dropped whatever the number
\* of artifacts collected.
filtered_artifacts_whatever_len(bt, arts) ==
    IF bt = Any
    THEN SelectSeq(arts, LAMBDA a : ~BuildType_matches(CustomBuild, a))
    ELSE arts

\* Mutant of filtered_artifacts: the filter keeps the build scripts instead of
\* dropping them.
filtered_artifacts_keeps_scripts(bt, arts) ==
    IF bt = Any /\ Len(arts) > 1
    THEN SelectSeq(arts, LAMBDA a : BuildType_matches(CustomBuild, a))
    ELSE arts

\* lib.rs:398-407: `filtered_artifacts`.
filtered_artifacts(bt, arts) ==
    IF bt = Any /\ Len(arts) > 1
    THEN SelectSeq(arts, LAMBDA a : ~BuildType_matches(CustomBuild, a))
    ELSE arts

\* Mutant of select: of several matching artifacts the first is taken.
select_takes_first(t, verbose, cmd, bt, arts) ==
    LET filtered == filtered_artifacts(bt, arts)
    IN IF arts = <<>>
       THEN IF verbose > 0
            THEN {Err([msg |-> "didn't compile any targets", cargo |-> cmd])}
            ELSE {Err([msg |-> "didn't compile any targets", tool |-> name(t)])}
       ELSE IF filtered = <<>>
       THEN {Err([msg |-> "No matching targets.", build_type |-> bt, targets |-> targets]) :
                targets \in format_targets(t, arts)}
       ELSE {Ok(filtered[1])}

\* Mutant of select: the check for an empty `artifacts` is missing.
select_without_empty_check(t, verbose, cmd, bt, arts) ==
    LET filtered == filtered_artifacts(bt, arts)
    IN IF filtered = <<>>
       THEN {Err([msg |-> "No matching targets.", build_type |-> bt, targets |-> <<>>])}
       ELSE IF Len(filtered) > 1
       THEN {Err([msg |-> "Can only have one matching target but found several.",
                  build_type |-> bt, targets |-> targets]) :
                targets \in format_targets(t, arts)}
       ELSE {Ok(filtered[1])}

\* lib.rs:387-432: the results the selection can have: the artifact chosen, or
\* one of the three errors.
select(t, verbose, cmd, bt, arts) ==
    LET filtered == filtered_artifacts(bt, arts)
    IN IF arts = <<>>
       THEN IF verbose > 0
            THEN {Err([msg |-> "didn't compile any targets", cargo |-> cmd])}
            ELSE {Err([msg |-> "didn't compile any targets", tool |-> name(t)])}
       ELSE IF filtered = <<>>
       THEN {Err([msg |-> "No matching targets.", build_type |-> bt, targets |-> targets]) :
                targets \in format_targets(t, arts)}
       ELSE IF Len(filtered) > 1
       THEN {Err([msg |-> "Can only have one matching target but found several.",
                  build_type |-> bt, targets |-> targets]) :
                targets \in format_targets(t, arts)}
       ELSE {Ok(filtered[1])}

\* cargo_build, lib.rs:387-432: choose the artifact among those collected.
Select ==
    /\ pc = "select"
    /\ \E r \in select(tool, matches.verbose, cargo, build_type, artifacts) :
         IF r.ok
         THEN artifact' = Some(r.value) /\ Continue("flags", stderr)
         ELSE UNCHANGED artifact /\ Return(r, stderr)
    /\ UNCHANGED <<inputs, budget, pipe, metadata, cargo, child, stream, artifacts,
                   status, stdout, lltool>>

\* lib.rs:481-490: the file of the artifact that is handed to the tool.
file_of(a) == IF IsSome(a.executable) THEN Unwrap(a.executable) ELSE a.filenames[1]

\* Mutant of with_artifact: every tool is run from the artifact's directory.
with_artifact_always_in_dir(t, cmd, a) ==
    CASE t \in {"Ar", "Lld", "Profdata"} -> cmd
      [] OTHER ->
            [cmd EXCEPT !.current_dir = Some(parent(file_of(a))),
                        !.args = Append(@, OsStr(file_name(file_of(a))))]

\* lib.rs:492-509: the artifact argument and the working directory, by tool.
with_artifact(t, cmd, a) ==
    CASE t \in {"Ar", "Lld", "Profdata"} -> cmd
      [] t \in {"Objdump", "Nm", "Readobj", "Size"} ->
            [cmd EXCEPT !.current_dir = Some(parent(file_of(a))),
                        !.args = Append(@, OsStr(file_name(file_of(a))))]
      [] t \in {"Objcopy", "Strip"} -> [cmd EXCEPT !.args = Append(@, file_of(a))]

\* Mutant of target_name: only "debug" stands for the host.
target_name_debug_only(a, target_directory) ==
    LET target_path == strip_prefix(a.filenames[1], target_directory)
        first == Unwrap(target_path)[1]
    IN IF target_path = None
       THEN {Err([msg |-> "prefix not found"])}
       ELSE IF first = "debug"
       THEN {Err([msg |-> "rustc -vV failed"]), Ok(Host)}
       ELSE {Ok(first)}

\* lib.rs:445-459: the results `target_name` can have: the first component of the
\* artifact's path below the target directory, or the host that rustc reports
\* (a query that can fail) when that component is a profile's directory.
target_name(a, target_directory) ==
    LET target_path == strip_prefix(a.filenames[1], target_directory)
        first == Unwrap(target_path)[1]
    IN IF target_path = None
       THEN {Err([msg |-> "prefix not found"])}
       ELSE IF first \in {"debug", "release"}
       THEN {Err([msg |-> "rustc -vV failed"]), Ok(Host)}
       ELSE {Ok(first)}

\* Cfg::of(target), lib.rs:461: `rustc --print cfg --target <target>`, which can
\* fail for any target and fails for one rustc does not know.
rustc_cfg(target) ==
    {Err([msg |-> "rustc --print cfg failed", target |-> target])}
        \cup IF target \in KnownTargets THEN {Ok(CfgOf(target))} ELSE {}

\* lib.rs:462-471: the flags that tell objdump the architecture.
arch_flags(cfg, target) ==
    LET arch == arch_name(cfg, target)
    IN IF arch = "thumb"
       THEN <<OsStr("-triple"), OsStr(target)>>
       ELSE <<OsStr("-arch-name"), OsStr(arch)>>

\* Mutant of extra_flags: readobj gets no output style, size gets one.
extra_flags_style_for_size(t, a, target_directory) ==
    CASE t = "Objdump" ->
            UNION {IF ~n.ok THEN {n}
                   ELSE {IF c.ok THEN Ok(arch_flags(c.value, n.value)) ELSE c :
                            c \in rustc_cfg(n.value)} :
                   n \in target_name(a, target_directory)}
      [] t = "Size" -> {Ok(<<OsStr("-elf-output-style=GNU")>>)}
      [] OTHER -> {Ok(<<>>)}

\* lib.rs:435-479: the results the `Extra flags` match can have: the arguments it
\* adds, or an error.
extra_flags(t, a, target_directory) ==
    CASE t = "Objdump" ->
            UNION {IF ~n.ok THEN {n}
                   ELSE {IF c.ok THEN Ok(arch_flags(c.value, n.value)) ELSE c :
                            c \in rustc_cfg(n.value)} :
                   n \in target_name(a, target_directory)}
      [] t = "Readobj" -> {Ok(<<OsStr("-elf-output-style=GNU")>>)}
      [] OTHER -> {Ok(<<>>)}

\* cargo_build, lib.rs:435-511: the tool's extra flags, then the artifact's file.
ToolArgs ==
    /\ pc = "flags"
    /\ \E r \in extra_flags(tool, Unwrap(artifact), Unwrap(metadata).target_directory) :
         IF r.ok
         THEN /\ lltool' = with_artifact(tool, [lltool EXCEPT !.args = @ \o r.value],
                                         Unwrap(artifact))
              /\ Continue("invoke",
                          IF /\ matches.verbose > 0
                             /\ tool \in {"Objdump", "Nm", "Readobj", "Size"}
                          THEN Append(stderr, <<"Running from", name(tool),
                                                parent(file_of(Unwrap(artifact)))>>)
                          ELSE stderr)
         ELSE UNCHANGED lltool /\ Return(r, stderr)
    /\ UNCHANGED <<inputs, budget, pipe, metadata, cargo, child, stream, artifacts,
                   status, stdout, artifact>>

\* Mutant of user_args: the user's arguments are put in front.
user_args_in_front(cmd, args) == [cmd EXCEPT !.args = args \o @]

\* run, lib.rs:280-283: the arguments after `--` are added to the command.
user_args(cmd, args) == [cmd EXCEPT !.args = @ \o args]

\* run, lib.rs:303-307: the code `run` returns for the tool's exit status.
exit_status_code(st) ==
    IF success(st) THEN 0 ELSE IF IsSome(st) THEN Unwrap(st) ELSE 1

\* run, lib.rs:280-307: the user's arguments, then the tool is run and its output
\* relayed; `output()` fails when the tool cannot be started.
Invoke ==
    /\ pc = "invoke"
    /\ LET cmd == user_args(lltool, matches.args)
           err == IF matches.verbose > 0 THEN Append(stderr, <<"lltool", cmd.args>>)
                  ELSE stderr
       IN \/ /\ lltool' = cmd
             /\ Return(Err([msg |-> "the tool failed to start"]), err)
             /\ UNCHANGED stdout
          \/ \E st \in ExitStatuses :
               /\ lltool' = [cmd EXCEPT !.spawned = TRUE, !.status = Some(st)]
               /\ stdout' = Append(stdout, "<processed output of the tool>")
               /\ Return(Ok(exit_status_code(st)), err)
    /\ UNCHANGED <<inputs, budget, pipe, metadata, cargo, child, stream, artifacts,
                   status, artifact>>

Next ==
    \/ NoBuild
    \/ MetadataExec
    \/ SpawnCargo
    \/ ChildWrite
    \/ ReadMessage
    \/ ReadError
    \/ EndOfStream
    \/ Wait
    \/ Select
    \/ ToolArgs
    \/ Invoke

Spec == Init /\ [][Next]_vars

\* A second specification: the same program, run with every combination of
\* --quiet and -v/-vv, for one selector.
InitDiag == InitWith({"Nm", "Ar"}, {0, 1, 2}, BOOLEAN, {Bin("app")}, {<<>>}, {<<"debug">>})
SpecDiag == InitDiag /\ [][Next]_vars

\* A third specification: every tool, with and without arguments for it, for
\* every output directory, in the project "pair".
UserArgs == {<<>>, <<OsStr("-d"), OsStr("-x")>>}
InitTools ==
    InitFor(Tool, {0}, {FALSE}, {Bin("app"), Lib}, UserArgs, OutDirs, {"pair"}, MaxStream)
SpecTools == InitTools /\ [][Next]_vars

\* A fourth specification: the project "scripted", whose build writes one message
\* more, with no selector and with --bin app.
InitListing ==
    InitFor({"Nm", "Ar"}, {0}, {FALSE}, {Any, Bin("app")}, {<<>>}, {<<"debug">>},
            {"scripted"}, MaxStream + 1)
SpecListing == InitListing /\ [][Next]_vars

\* A fifth specification, of llvm::arch_name alone: it is applied to every arch
\* its comments list, for both byte orders and for targets with and without the
\* thumb prefix, and then once more to its own result.
Endians == {"little", "big"}
InitArch ==
    /\ call \in {Some([cfg |-> Cfg(a, e), target |-> t, out |-> None, again |-> None]) :
                    a \in RustArches \cup MappedArches \cup LlvmArches, e \in Endians, t \in KnownTargets}
    /\ tool = "Objdump"
    /\ matches = ArgMatches(0, FALSE, Any, <<>>)
    /\ out_dir = <<"debug">>
    /\ project = "pair"
    /\ budget = 0
    /\ pipe = <<>>
    /\ pc = "flags"
    /\ metadata = None
    /\ cargo = <<>>
    /\ child = "none"
    /\ stream = <<>>
    /\ artifacts = <<>>
    /\ status = None
    /\ stdout = <<>>
    /\ stderr = <<>>
    /\ artifact = None
    /\ lltool = [args |-> <<>>, current_dir |-> None, spawned |-> FALSE, status |-> None]
    /\ result = None
    /\ exit_code = None

\* llvm::arch_name is applied to the arguments of `call`.
ArchName ==
    /\ IsSome(call)
    /\ Unwrap(call).out = None
    /\ call' = Some([Unwrap(call) EXCEPT
                       !.out = Some(arch_name(Unwrap(call).cfg, Unwrap(call).target))])
    /\ UNCHANGED <<tool, matches, out_dir, project, budget, pipe, pc, metadata, cargo, child,
                   stream, artifacts, status, stdout, stderr, artifact, lltool, result,
                   exit_code>>

\* llvm::arch_name is applied to its own result, for the same byte order and target.
ArchNameAgain ==
    /\ IsSome(call)
    /\ IsSome(Unwrap(call).out)
    /\ Unwrap(call).again = None
    /\ call' = Some([Unwrap(call) EXCEPT
                       !.again = Some(arch_name(Cfg(Unwrap(Unwrap(call).out),
                                                    Unwrap(call).cfg.target_endian),
                                                Unwrap(call).target))])
    /\ UNCHANGED <<tool, matches, out_dir, project, budget, pipe, pc, metadata, cargo, child,
                   stream, artifacts, status, stdout, stderr, artifact, lltool, result,
                   exit_code>>

NextArch ==
    \/ ArchName
    \/ ArchNameAgain

SpecArch == InitArch /\ [][NextArch]_vars

\* ------------------------------------------------------------------ claims
\* What the claims speak of, read off the messages that were read.

\* The compiled products among the messages read, in stream order.
Products == 
    LET arts == SelectSeq(stream, LAMBDA m : m.type = "CompilerArtifact")
    IN [i \in 1..Len(arts) |-> arts[i].artifact]

KindTag(a) == a.target.kind[1]

\* The products of workspace members whose kind tag is in `tags` and, for a
\* named selector, whose name is the selector's.
MemberProducts(tags, named) ==
    SelectSeq(Products, LAMBDA a : /\ a.package_id \in Members
                                   /\ KindTag(a) \in tags
                                   /\ named => a.target.name = build_type.name)

AllKindTags == {KindTag([target |-> t]) : t \in Targets}
NamedTags == {"Bin", "Example", "Test", "Bench"}
CategoryTag == [Bin |-> "bin", Example |-> "example", Test |-> "test", Bench |-> "bench"]

\* The candidates of the run, as the claims define them per selector.
Candidates ==
    CASE build_type.tag \in NamedTags -> MemberProducts({CategoryTag[build_type.tag]}, TRUE)
      [] build_type.tag = "Lib" ->
            MemberProducts(AllKindTags \ {"bin", "example", "test", "bench", "custom-build"},
                           FALSE)
      [] build_type.tag = "Any" -> MemberProducts(AllKindTags, FALSE)

BuildSucceeded == status = Some(Some(0))
BuildFailed == IsSome(status) /\ status # Some(Some(0))
AfterSelection == pc \in {"flags", "invoke", "exited"}
Failed(msg) == pc = "exited" /\ ~Unwrap(result).ok /\ Unwrap(result).error.msg = msg
Last(seq) == seq[Len(seq)]

\* C1: when the stream read holds exactly one compiled product of a workspace
\* member that matches the selector and the build exits successfully, that product
\* is the artifact selected, and once the tool's command is complete its artifact
\* argument is that product's file.
C1_SingleCandidateSelected ==
    (BuildSucceeded /\ AfterSelection /\ Len(Candidates) = 1) =>
        /\ artifact = Some(Candidates[1])
        /\ pc = "invoke" =>
             /\ lltool.args # <<>>
             /\ Last(lltool.args) \in {file_of(Candidates[1]),
                                       OsStr(file_name(file_of(Candidates[1])))}

\* C1 witness: Bin("app") was asked for; member B's library and then member A's
\* binary `app` were read; the binary is selected and handed to the tool.
C1_Witness ==
    /\ pc = "invoke"
    /\ build_type = Bin("app")
    /\ Len(stream) = 2
    /\ stream[1].type = "CompilerArtifact"
    /\ stream[1].artifact.package_id = "B"
    /\ KindTag(stream[1].artifact) = "lib"
    /\ stream[2].type = "CompilerArtifact"
    /\ stream[2].artifact.package_id = "A"
    /\ stream[2].artifact.target = [name |-> "app", kind |-> <<"bin">>]
    /\ artifact = Some(stream[2].artifact)

\* The number of elements of seq that equal x.
Count(seq, x) == Cardinality({i \in 1..Len(seq) : seq[i] = x})

\* The command line the claims expect in a listing for candidate c: the flag of its
\* category and its name, with --package when several packages are listed.
FlagOfKind(k) ==
    CASE k = "bin" -> "--bin"
      [] k = "example" -> "--example"
      [] k = "test" -> "--test"
      [] k = "bench" -> "--bench"
      [] OTHER -> "--lib"
ExpectedLine(c, several) ==
    IF several
    THEN <<"cargo", name(tool), "--package", c.package_id, FlagOfKind(KindTag(c)), c.target.name>>
    ELSE <<"cargo", name(tool), FlagOfKind(KindTag(c)), c.target.name>>

\* A listing lists exactly the candidates cs: it has one command line per
\* candidate and nothing but package headings besides.
ListsExactly(targets, cs) ==
    LET several == Cardinality({cs[i].package_id : i \in 1..Len(cs)}) > 1
        lines == SelectSeq(targets, LAMBDA l : l[1] # "Package:")
        want == [i \in 1..Len(cs) |-> ExpectedLine(cs[i], several)]
    IN /\ Len(lines) = Len(cs)
       /\ \A i \in 1..Len(cs) : Count(lines, want[i]) = Count(want, want[i])

\* C2: with a selector other than Any, a successful exit and two or more
\* candidates, the build step fails with the several-matching-targets error, whose
\* listing holds exactly those candidates; no artifact is selected and the tool's
\* command gets no argument and is never run.
C2_AmbiguousNeverPicks ==
    (BuildSucceeded /\ AfterSelection /\ build_type # Any /\ Len(Candidates) >= 2) =>
        /\ Failed("Can only have one matching target but found several.")
        /\ ListsExactly(Unwrap(result).error.targets, Candidates)
        /\ artifact = None
        /\ lltool.args = <<>>
        /\ ~lltool.spawned

\* C2 witness: --lib with the libraries of both members built: the run ended in
\* the several-matching-targets error.
C2_Witness ==
    /\ build_type = Lib
    /\ Len(Candidates) = 2
    /\ Candidates[1].package_id # Candidates[2].package_id
    /\ Failed("Can only have one matching target but found several.")

\* C3: with selector Any, a successful exit and the candidates being one binary
\* and one build script, in either order, the build script is dropped and the
\* binary is the artifact selected.
C3_BuildScriptTieBreak ==
    (/\ BuildSucceeded
     /\ AfterSelection
     /\ build_type = Any
     /\ Len(artifacts) = 2
     /\ {KindTag(artifacts[1]), KindTag(artifacts[2])} = {"bin", "custom-build"}) =>
        \E i \in 1..2 : KindTag(artifacts[i]) = "bin" /\ artifact = Some(artifacts[i])

\* C3 witness: the build script came first, the binary second, and the binary
\* was selected.
C3_Witness ==
    /\ build_type = Any
    /\ pc = "invoke"
    /\ Len(artifacts) = 2
    /\ KindTag(artifacts[1]) = "custom-build"
    /\ KindTag(artifacts[2]) = "bin"
    /\ artifact = Some(artifacts[2])

\* C4: zero candidates and a successful exit: the build step fails with the error
\* of lib.rs:387-396 (no target was compiled), and the tool is never run.
C4_NoCandidatesNoTargets ==
    (BuildSucceeded /\ AfterSelection /\ Len(Candidates) = 0) =>
        /\ Failed("didn't compile any targets")
        /\ artifact = None
        /\ ~lltool.spawned

\* C4 witness: a dependency's binary and a diagnostic were read, nothing of the
\* workspace matched, the build succeeded and the run ended in that error.
C4_Witness ==
    /\ Failed("didn't compile any targets")
    /\ Len(stream) = 2
    /\ stream[1].type = "CompilerArtifact"
    /\ stream[1].artifact.package_id = "D"
    /\ stream[2].type = "CompilerMessage"

\* C5: zero candidates and an exit that is not a success (a non-zero code or a
\* signal): the build step fails with the build-failed error, not with the error
\* for no targets.
C5_FailedBuildReported ==
    (BuildFailed /\ Len(Candidates) = 0) => Failed("Failed to run")

\* C5 witness: the child was killed by a signal with nothing matching read.
C5_Witness ==
    /\ status = Some(None)
    /\ Len(stream) = 2
    /\ Len(Candidates) = 0
    /\ Failed("Failed to run")

\* C6, as claimed: under Any only products whose kind tag is binary or example
\* are collected as candidates.
C6_AnyCollectsOnlyBinOrExample ==
    build_type = Any =>
        \A i \in 1..Len(artifacts) : KindTag(artifacts[i]) \in {"bin", "example"}

\* C6, amended: under Any every compiled product of a workspace member is
\* collected as a candidate, whatever its kind tag, and no other product is.
C6_AnyCollectsEveryMemberProduct ==
    build_type = Any => artifacts = MemberProducts(AllKindTags, FALSE)

\* C6 witness: under Any a test and a library of the workspace were collected.
C6_Witness ==
    /\ build_type = Any
    /\ Len(artifacts) = 2
    /\ KindTag(artifacts[1]) = "test"
    /\ KindTag(artifacts[2]) = "lib"

\* C7: the candidates collected are products of workspace members only, and for a
\* named selector they are exactly the members' products whose kind tag is the
\* selector's category and whose name is the selector's name, in stream order.
C7_CandidateIffMemberAndMatch ==
    /\ \A i \in 1..Len(artifacts) : artifacts[i].package_id \in Members
    /\ build_type.tag \in NamedTags =>
         artifacts = MemberProducts({CategoryTag[build_type.tag]}, TRUE)

\* C7 witness: --example app; the dependency's example `app` and then member A's
\* example `aux` were read and neither was collected.
C7_Witness ==
    /\ build_type = Example("app")
    /\ Len(stream) = 2
    /\ stream[1].type = "CompilerArtifact"
    /\ stream[1].artifact.package_id = "D"
    /\ stream[1].artifact.target = [name |-> "app", kind |-> <<"example">>]
    /\ stream[2].type = "CompilerArtifact"
    /\ stream[2].artifact.package_id = "A"
    /\ stream[2].artifact.target = [name |-> "aux", kind |-> <<"example">>]
    /\ artifacts = <<>>

\* C8: under Lib a member's product is collected exactly when its kind tag is
\* none of binary, example, test, bench and custom-build.
C8_LibIsNoneOfTheFive ==
    build_type = Lib =>
        artifacts = MemberProducts(AllKindTags \ {"bin", "example", "test", "bench",
                                                  "custom-build"}, FALSE)

\* C8 witness: --lib; a bench of member A was read and not collected, a library of
\* (crate types lib and cdylib) was read and collected.
C8_Witness ==
    /\ build_type = Lib
    /\ Len(stream) = 2
    /\ stream[1].type = "CompilerArtifact"
    /\ stream[1].artifact.package_id = "A"
    /\ KindTag(stream[1].artifact) = "bench"
    /\ stream[2].type = "CompilerArtifact"
    /\ stream[2].artifact.target.kind = <<"lib", "cdylib">>
    /\ artifacts = <<stream[2].artifact>>

\* The rendered texts of the diagnostics among the messages read, in stream order.
RenderedTexts ==
    LET ds == SelectSeq(stream, LAMBDA m : m.type = "CompilerMessage" /\ IsSome(m.rendered))
    IN [i \in 1..Len(ds) |-> Unwrap(ds[i].rendered)]

\* C9: while the build step runs, what was printed is exactly the rendered texts
\* of the diagnostics read so far, in stream order: each text is printed as its
\* message is read, hence before any later message and before the exit status is
\* known, and a diagnostic without rendered text prints nothing.
C9_DiagnosticsInStreamOrder ==
    /\ pc \in {"drain", "wait", "select", "flags", "invoke"} => stdout = RenderedTexts
    /\ pc = "drain" => status = None
    /\ pc = "exited" =>
         stdout \in {RenderedTexts, Append(RenderedTexts, "<processed output of the tool>")}

\* C9 witness: two diagnostics were read and printed in their order while the
\* stream is still open.
C9_Witness ==
    /\ pc = "drain"
    /\ Len(stream) = 2
    /\ stream[1].type = "CompilerMessage"
    /\ stream[2].type = "CompilerMessage"
    /\ stdout = <<"error: mismatched", "warning: unused">>

\* C10, as claimed: in quiet mode without -v no diagnostic text of the build is
\* printed.
C10_QuietPrintsNoDiagnostics ==
    (matches.quiet /\ matches.verbose = 0) =>
        \A i \in 1..Len(stdout) : stdout[i] \notin Rendered

\* The tools the claims name as needing a build, and those that do not.
BuildTools == {"Nm", "Objcopy", "Objdump", "Readobj", "Size", "Strip"}
PlainTools == {"Ar", "Lld", "Profdata"}

\* C11: the child's exit status is waited for, and known, only when the stream
\* was read to its end: whenever the run waits in child.wait() or holds an exit
\* status, no message the child wrote is left unread in the pipe, and the messages
\* read are all the messages the child wrote.
C11_WaitOnlyAfterEndOfStream ==
    (pc = "wait" \/ IsSome(status)) =>
        /\ pipe = <<>>
        /\ Len(stream) + budget = MaxStream

\* C11 witness: the child wrote two messages, both were read, and the run waits
\* for the child to exit.
C11_Witness ==
    /\ pc = "wait"
    /\ Len(stream) = 2
    /\ status = None
    /\ child = "running"

\* C12: a tool that needs a build is run only after a build that exited
\* successfully and a selection that chose one artifact, the one its command was
\* given; a run that ends in an error of the build step never runs the tool; and
\* for a tool that needs no build neither `cargo metadata` nor `cargo build` is
\* run.
C12_ToolRunsOnlyOnSelectedProduct ==
    /\ (tool \in BuildTools /\ (pc = "invoke" \/ lltool.spawned)) =>
          /\ BuildSucceeded
          /\ child = "reaped"
          /\ IsSome(artifact)
          /\ \E i \in 1..Len(Candidates) : Candidates[i] = Unwrap(artifact)
    /\ (pc = "exited" /\ ~Unwrap(result).ok) => ~lltool.spawned
    /\ tool \in PlainTools =>
          /\ child = "none"
          /\ cargo = <<>>
          /\ metadata = None
          /\ stream = <<>>

\* C12 witness: size was run on the one artifact selected.
C12_Witness ==
    /\ tool = "Size"
    /\ lltool.spawned
    /\ IsSome(artifact)
    /\ Len(Candidates) = 1

\* The first component of the selected artifact's path below the target
\* directory, and the target the claims derive from it.
FirstSegment == Unwrap(artifact).filenames[1][Len(TargetDirectory) + 1]
DerivedTarget == IF FirstSegment \in {"debug", "release"} THEN Host ELSE FirstSegment

\* C13: for objdump the target is the first component of the artifact's path
\* below the target directory, and the host when that component is "debug" or
\* "release": the architecture flags are those of that target, a failed cfg query
\* was made for that target, and the host is only asked for under "debug" or
\* "release".
C13_TargetFromFirstSegment ==
    (tool = "Objdump" /\ IsSome(artifact)) =>
        /\ pc = "invoke" =>
             SubSeq(lltool.args, 1, 2) = arch_flags(CfgOf(DerivedTarget), DerivedTarget)
        /\ Failed("rustc --print cfg failed") => Unwrap(result).error.target = DerivedTarget
        /\ Failed("rustc -vV failed") => FirstSegment \in {"debug", "release"}

\* C13 witness: an artifact below release/ was selected and objdump's flags are
\* those of the host.
C13_Witness ==
    /\ tool = "Objdump"
    /\ pc = "invoke"
    /\ FirstSegment = "release"
    /\ SubSeq(lltool.args, 1, 2) = <<OsStr("-arch-name"), OsStr("x86-64")>>

\* C14, as claimed: for a target whose name begins with "thumb" objdump is given
\* -triple and the target's name, whatever rustc reports for it, and for any other
\* target -arch-name and the mapped architecture.
C14_ThumbGetsTriple ==
    (tool = "Objdump" /\ pc = "invoke") =>
        SubSeq(lltool.args, 1, 2) =
            IF starts_with_thumb(DerivedTarget)
            THEN <<OsStr("-triple"), OsStr(DerivedTarget)>>
            ELSE <<OsStr("-arch-name"),
                   OsStr(arch_name(CfgOf(DerivedTarget), DerivedTarget))>>

\* C15: for a target without the thumb prefix, applying arch_name to its own
\* result, with the same byte order, gives that result again, and the name x86-64
\* is mapped to itself.
C15_ArchNameIdempotent ==
    (IsSome(call) /\ ~starts_with_thumb(Unwrap(call).target)) =>
        /\ IsSome(Unwrap(call).again) => Unwrap(call).again = Unwrap(call).out
        /\ (IsSome(Unwrap(call).out) /\ Unwrap(call).cfg.target_arch = "x86-64") =>
              Unwrap(call).out = Some("x86-64")

\* C15 witness: little-endian powerpc64 was mapped to ppc64le, and ppc64le to
\* itself.
C15_Witness ==
    /\ IsSome(call)
    /\ Unwrap(call).cfg = Cfg("powerpc64", "little")
    /\ Unwrap(call).target = "powerpc64le-unknown-linux-gnu"
    /\ Unwrap(call).out = Some("ppc64le")
    /\ Unwrap(call).again = Some("ppc64le")

\* The command of the tool is complete but for the user's arguments, or the tool
\* was started (or failed to start) with it.
Invoked == pc = "exited" /\ (lltool.spawned \/ Failed("the tool failed to start"))
HasFlag(args, f) == \E i \in 1..Len(args) : args[i] = OsStr(f)

\* C16: of the arguments cargo_build gives the tool, -triple or -arch-name are
\* there exactly for objdump and -elf-output-style=GNU exactly for readobj.
C16_FlagsByTool ==
    pc = "invoke" =>
        /\ (HasFlag(lltool.args, "-triple") \/ HasFlag(lltool.args, "-arch-name"))
              <=> tool = "Objdump"
        /\ HasFlag(lltool.args, "-elf-output-style=GNU") <=> tool = "Readobj"
        /\ tool \notin {"Objdump", "Readobj"} =>
              Len(lltool.args) = IF tool \in BuildTools THEN 1 ELSE 0

\* C16 witness: readobj is about to be run with the output style and one file.
C16_Witness ==
    /\ pc = "invoke"
    /\ tool = "Readobj"
    /\ Len(lltool.args) = 2
    /\ lltool.args[1] = OsStr("-elf-output-style=GNU")

\* The file of the selected product: its executable, else its first file name.
ProductFile ==
    IF IsSome(Unwrap(artifact).executable)
    THEN Unwrap(Unwrap(artifact).executable)
    ELSE Unwrap(artifact).filenames[1]
\* How many flags cargo_build puts in front of the artifact's argument.
FlagCount == CASE tool = "Objdump" -> 2 [] tool = "Readobj" -> 1 [] OTHER -> 0

\* C17: nm, objdump, readobj and size are run from the directory of the product's
\* file and given its base name; objcopy and strip are run from the directory of
\* this process and given the file's whole path.
C17_ArtifactArgumentByTool ==
    (pc = "invoke" /\ tool \in BuildTools) =>
        /\ Len(lltool.args) = FlagCount + 1
        /\ tool \in {"Nm", "Objdump", "Readobj", "Size"} =>
              /\ lltool.current_dir = Some(SubSeq(ProductFile, 1, Len(ProductFile) - 1))
              /\ Last(lltool.args) = <<Last(ProductFile)>>
        /\ tool \in {"Objcopy", "Strip"} =>
              /\ lltool.current_dir = None
              /\ Last(lltool.args) = ProductFile

\* C17 witness: strip is about to be run on a library, which has no executable:
\* it is given the whole path of the first file name.
C17_Witness ==
    /\ pc = "invoke"
    /\ tool = "Strip"
    /\ Unwrap(artifact).executable = None
    /\ lltool.args = <<TargetDirectory \o out_dir \o <<"libapp.rlib">> >>
    /\ lltool.current_dir = None

\* C18: the command the tool is started with ends with the user's arguments, as
\* given and in their order, after the tool's flags and the artifact's file and
\* with nothing else added.
C18_UserArgsLast ==
    Invoked =>
        LET k == IF tool \in BuildTools THEN FlagCount + 1 ELSE 0
        IN /\ Len(lltool.args) = k + Len(matches.args)
           /\ SubSeq(lltool.args, k + 1, Len(lltool.args)) = matches.args

\* C18 witness: objdump was run with its two flags, the file and then -d -x.
C18_Witness ==
    /\ tool = "Objdump"
    /\ lltool.spawned
    /\ Len(lltool.args) = 5
    /\ SubSeq(lltool.args, 4, 5) = <<OsStr("-d"), OsStr("-x")>>

\* C19, as claimed: the process exits with 0 only when the tool ran and succeeded,
\* with the tool's code when it exited with one, and with 101 when the tool ended
\* without a code or the run failed.
C19_ExitCodes ==
    pc = "exited" =>
        /\ exit_code = Some(0) => (lltool.spawned /\ lltool.status = Some(Some(0)))
        /\ (Unwrap(result).ok /\ IsSome(Unwrap(lltool.status))) =>
              exit_code = Some(Unwrap(Unwrap(lltool.status)))
        /\ (~Unwrap(result).ok \/ Unwrap(lltool.status) = None) => exit_code = Some(101)

\* The candidates that remain after the tie-break: under Any, and with more than
\* one candidate, those that are no build script.
Remaining ==
    IF build_type = Any /\ Len(Candidates) > 1
    THEN SelectSeq(Candidates, LAMBDA c : KindTag(c) # "custom-build")
    ELSE Candidates

\* C20, as claimed: the listing of the several-matching-targets error has the
\* command line of every candidate that remained after the tie-break; it has
\* package headings, and its entries carry --package, exactly when those
\* candidates belong to more than one workspace member.
C20_ListingOfRemainingCandidates ==
    Failed("Can only have one matching target but found several.") =>
        LET listing == Unwrap(result).error.targets
            several == Cardinality({Remaining[i].package_id : i \in 1..Len(Remaining)}) > 1
            headings == SelectSeq(listing, LAMBDA l : l[1] = "Package:")
            entries == SelectSeq(listing, LAMBDA l : l[1] # "Package:")
        IN /\ \A i \in 1..Len(Remaining) :
                Count(entries, ExpectedLine(Remaining[i], several)) >= 1
           /\ headings # <<>> <=> several
           /\ \A i \in 1..Len(entries) :
                (\E j \in 1..Len(entries[i]) : entries[i][j] = "--package") <=> several

\* C21: when the build's exit status is a non-zero code or a signal, the build
\* step fails with the build-failed error whatever was collected from the stream
\* (nothing, one candidate or several): no artifact is selected, the tool's
\* command gets no argument and the tool is not run.
C21_FailedBuildSelectsNothing ==
    BuildFailed =>
        /\ Failed("Failed to run")
        /\ artifact = None
        /\ lltool.args = <<>>
        /\ ~lltool.spawned

\* C21 witness: one binary `app` of the workspace was read, the only candidate
\* of --bin app, the build ended with exit code 2 and the run in the build-failed
\* error.
C21_Witness ==
    /\ build_type = Bin("app")
    /\ status = Some(Some(2))
    /\ Len(Candidates) = 1
    /\ Len(artifacts) = 1
    /\ Failed("Failed to run")

\* C22, as claimed: once the cargo child was spawned, the run ends only after
\* child.wait() returned: a run that has ended has no child that is still
\* running and was never waited for.
C22_NoReturnBeforeWait ==
    pc = "exited" => child \in {"none", "reaped"}

\* The arches the claim names as those Rust knows.
ClaimedArches ==
    {"aarch64", "arm", "hexagon", "mips", "mips64", "msp430", "nvptx", "nvptx64", "powerpc",
     "powerpc64", "riscv32", "riscv64", "s390x", "sparc", "sparc64", "wasm32", "x86",
     "x86_64"}

\* C23: for each of those arches with either byte order, and for every target
\* with the thumb prefix, the name arch_name returns is one of the arches the
\* source lists for LLVM.
C23_ArchNameKnownToLlvm ==
    (/\ IsSome(call)
     /\ IsSome(Unwrap(call).out)
     /\ \/ Unwrap(call).cfg.target_arch \in ClaimedArches
        \/ starts_with_thumb(Unwrap(call).target)) =>
        Unwrap(Unwrap(call).out) \in LlvmArches

\* C23 witness: big-endian sparc64, for a target without the thumb prefix, was
\* mapped to sparcv9.
C23_Witness ==
    /\ IsSome(call)
    /\ Unwrap(call).cfg = Cfg("sparc64", "big")
    /\ ~starts_with_thumb(Unwrap(call).target)
    /\ Unwrap(call).out = Some("sparcv9")
====
